---- MODULE Spec2Model ----
(***************************************************************************)
(* DiodeScoutUI: the incremental line-protocol parser and the store of     *)
(* measurement series (src/src/measurementdata.cpp), with the byte         *)
(* delivery loop of the main window (src/src/mainwindow.cpp).              *)
(*                                                                         *)
(* A byte is a one-character string, a std::string a sequence of bytes, a  *)
(* MeasurementPoint a record, a MeasurementSeries the sequence points_,    *)
(* and the manager a record of its four fields.  Doubles are modelled by   *)
(* the integers the decimal literals of the alphabet denote.               *)
(***************************************************************************)
EXTENDS Integers, Sequences, FiniteSets, TLC

\* the four fields of MeasurementDataManager
VARIABLES state_, currentLine_, tempSeries_, series_
\* the last call: its name, its argument (a byte sequence), the ParseResult
\* of each byte it consumed, and the line it handed to handleCompletedLine
VARIABLES op, arg, results, handled
\* the calls made since construction and the ParseResults returned since
\* then, recorded by the specifications that bound the number of calls
VARIABLES hist, signals
\* what the last call of a const member function gave its caller: how it
\* ended, the index it was given, and the value or the file it produced
VARIABLES outcome
\* what the main window shows: its chart and the message of its status bar
VARIABLES ui

vars == <<state_, currentLine_, tempSeries_, series_,
          op, arg, results, handled, hist, signals, outcome, ui>>

(***************************************************************************)
(* Bounds of the model.                                                    *)
(***************************************************************************)
\* longest line buffer the byte-level specifications build
MaxLine == 3
\* most points held by the manager (temporary and completed together)
MaxPoints == 2
\* most calls made in the line-level specification
MaxHist == 7
\* most chunks delivered in the chunk-level specification
MaxChunks == 5
\* most blocks of lines delivered in the store-level specification
MaxBlocks == 3
\* most lines delivered in the specification of malformed lines
MaxParsed == 3
\* most chunks delivered in the specification of carriage returns
MaxCR == 5
\* most events handled in the specification of the main window
MaxEvents == 4
\* most deliveries and removals in the specification of recovery
MaxRecover == 4

LF == "\n"
CR == "\r"

\* the bytes the byte-level specifications draw from
Bytes == {"*", "#", " ", "1", LF, CR}

(***************************************************************************)
(* Enumerations of measurementdata.h                                       *)
(***************************************************************************)
ParseResult == {"Nothing", "SeriesCompleted"}
ParserState == {"Idle", "ReceivingSeries"}

MeasurementPoint(v, c) == [voltageVolt |-> v, currentMilliAmp |-> c]

\* the manager as a value: the four private fields
Manager(st, line, temp, ser) ==
    [state_ |-> st, currentLine_ |-> line, tempSeries_ |-> temp, series_ |-> ser]

\* MeasurementDataManager() = default
NewManager == Manager("Idle", <<>>, <<>>, <<>>)

Mgr == Manager(state_, currentLine_, tempSeries_, series_)

\* the outcome of a call that is not a const query or an export
NoOutcome == [status |-> "none", index |-> 0, value |-> <<>>]

(***************************************************************************)
(* MeasurementSeries                                                       *)
(***************************************************************************)
\* slip: the point is inserted at the front
addPoint_front(points_, voltage, currentMilliAmp) ==
    <<MeasurementPoint(voltage, currentMilliAmp)>> \o points_

addPoint(points_, voltage, currentMilliAmp) ==
    Append(points_, MeasurementPoint(voltage, currentMilliAmp))

(***************************************************************************)
(* std::isspace on the bytes below 0x80, where every locale gives the     *)
(* same answer: space, \t, \n, \v, \f and \r are white space.  VT is the    *)
(* byte 0x0B.  The extraction of operator>> skips the same six bytes.      *)
(***************************************************************************)
VT == ""

isspace(ch) == ch \in {" ", "\t", "\n", VT, "\f", "\r"}

Digits == {"0", "1", "2", "3", "4", "5", "6", "7", "8", "9"}

DigitVal(ch) ==
    CASE ch = "0" -> 0 [] ch = "1" -> 1 [] ch = "2" -> 2 [] ch = "3" -> 3
      [] ch = "4" -> 4 [] ch = "5" -> 5 [] ch = "6" -> 6 [] ch = "7" -> 7
      [] ch = "8" -> 8 [] ch = "9" -> 9

(***************************************************************************)
(* trim: the two index loops and the substr                                *)
(***************************************************************************)
RECURSIVE TrimStart(_, _)
TrimStart(s, start) ==
    IF start < Len(s) /\ isspace(s[start + 1])
    THEN TrimStart(s, start + 1)
    ELSE start

RECURSIVE TrimEnd(_, _, _)
TrimEnd(s, start, end) ==
    IF end > start /\ isspace(s[end])
    THEN TrimEnd(s, start, end - 1)
    ELSE end

\* slip: only the leading white space is removed
trim_leadingOnly(s) ==
    LET start == TrimStart(s, 0)
    IN  SubSeq(s, start + 1, Len(s))

trim(s) ==
    LET start == TrimStart(s, 0)
        end   == TrimEnd(s, start, Len(s))
    IN  SubSeq(s, start + 1, end)

(***************************************************************************)
(* operator>>(std::istream&, double&) on signed decimal integers, the       *)
(* literals the lines of this model hold (no ".", no exponent): skip white *)
(* space, then an optional sign and a run of digits; no digit, or the end  *)
(* of the string before one, sets failbit.  The extraction stops at the    *)
(* first character that is no digit and leaves it in the stream.  pos is   *)
(* the number of characters already consumed.                              *)
(***************************************************************************)
RECURSIVE SkipWs(_, _)
SkipWs(s, pos) ==
    IF pos < Len(s) /\ isspace(s[pos + 1]) THEN SkipWs(s, pos + 1) ELSE pos

RECURSIVE ReadDigits(_, _, _, _)
ReadDigits(s, pos, acc, n) ==
    IF pos < Len(s) /\ s[pos + 1] \in Digits
    THEN ReadDigits(s, pos + 1, 10 * acc + DigitVal(s[pos + 1]), n + 1)
    ELSE [val |-> acc, pos |-> pos, n |-> n]

ExtractDouble(s, pos) ==
    LET p    == SkipWs(s, pos)
        sgn  == p < Len(s) /\ s[p + 1] \in {"-", "+"}
        q    == IF sgn THEN p + 1 ELSE p
        d    == ReadDigits(s, q, 0, 0)
    IN  IF d.n = 0
        THEN [ok |-> FALSE, val |-> 0, pos |-> d.pos]
        ELSE [ok |-> TRUE,
              val |-> IF sgn /\ s[p + 1] = "-" THEN 0 - d.val ELSE d.val,
              pos |-> d.pos]

(***************************************************************************)
(* parseDataLine: iss >> x >> y, and addPoint when both succeed            *)
(***************************************************************************)
\* slip: the two values reach addPoint in the wrong order
parseDataLine_swapped(temp, line) ==
    LET x == ExtractDouble(line, 0)
        y == ExtractDouble(line, x.pos)
    IN  IF ~(x.ok /\ y.ok)
        THEN temp
        ELSE addPoint(temp, y.val, x.val)

parseDataLine(temp, line) ==
    LET x == ExtractDouble(line, 0)
        y == ExtractDouble(line, x.pos)
    IN  IF ~(x.ok /\ y.ok)
        THEN temp
        ELSE addPoint(temp, x.val, y.val)

(***************************************************************************)
(* handleCompletedLine: the manager after the line and the ParseResult     *)
(***************************************************************************)
\* slip: "*" does not reset the temporary series
handleCompletedLine_tempNotReset(m, rawLine) ==
    LET line == trim(rawLine)
    IN  IF line = <<>>
        THEN [m |-> m, result |-> "Nothing"]
        ELSE IF line = <<"*">>
        THEN [m |-> [m EXCEPT !.state_ = "ReceivingSeries"], result |-> "Nothing"]
        ELSE IF line[1] = "*" /\ line # <<"*">>
        THEN [m |-> m, result |-> "Nothing"]
        ELSE IF line = <<"#">>
        THEN IF m.state_ = "ReceivingSeries" /\ m.tempSeries_ # <<>>
             THEN [m |-> [m EXCEPT !.series_ = Append(m.series_, m.tempSeries_),
                                   !.tempSeries_ = <<>>,
                                   !.state_ = "Idle"],
                   result |-> "SeriesCompleted"]
             ELSE [m |-> m, result |-> "Nothing"]
        ELSE IF m.state_ = "ReceivingSeries"
        THEN [m |-> [m EXCEPT !.tempSeries_ = parseDataLine(m.tempSeries_, line)],
              result |-> "Nothing"]
        ELSE [m |-> m, result |-> "Nothing"]

\* slip: "#" closes the series without looking whether it holds a point
handleCompletedLine_emptyClosed(m, rawLine) ==
    LET line == trim(rawLine)
    IN  IF line = <<>>
        THEN [m |-> m, result |-> "Nothing"]
        ELSE IF line = <<"*">>
        THEN [m |-> [m EXCEPT !.tempSeries_ = <<>>, !.state_ = "ReceivingSeries"],
              result |-> "Nothing"]
        ELSE IF line[1] = "*" /\ line # <<"*">>
        THEN [m |-> m, result |-> "Nothing"]
        ELSE IF line = <<"#">>
        THEN IF m.state_ = "ReceivingSeries"
             THEN [m |-> [m EXCEPT !.series_ = Append(m.series_, m.tempSeries_),
                                   !.tempSeries_ = <<>>,
                                   !.state_ = "Idle"],
                   result |-> "SeriesCompleted"]
             ELSE [m |-> m, result |-> "Nothing"]
        ELSE IF m.state_ = "ReceivingSeries"
        THEN [m |-> [m EXCEPT !.tempSeries_ = parseDataLine(m.tempSeries_, line)],
              result |-> "Nothing"]
        ELSE [m |-> m, result |-> "Nothing"]

\* slip: the open sentinel is recognised by its first character alone
handleCompletedLine_starPrefix(m, rawLine) ==
    LET line == trim(rawLine)
    IN  IF line = <<>>
        THEN [m |-> m, result |-> "Nothing"]
        ELSE IF line[1] = "*"
        THEN [m |-> [m EXCEPT !.tempSeries_ = <<>>, !.state_ = "ReceivingSeries"],
              result |-> "Nothing"]
        ELSE IF line = <<"#">>
        THEN IF m.state_ = "ReceivingSeries" /\ m.tempSeries_ # <<>>
             THEN [m |-> [m EXCEPT !.series_ = Append(m.series_, m.tempSeries_),
                                   !.tempSeries_ = <<>>,
                                   !.state_ = "Idle"],
                   result |-> "SeriesCompleted"]
             ELSE [m |-> m, result |-> "Nothing"]
        ELSE IF m.state_ = "ReceivingSeries"
        THEN [m |-> [m EXCEPT !.tempSeries_ = parseDataLine(m.tempSeries_, line)],
              result |-> "Nothing"]
        ELSE [m |-> m, result |-> "Nothing"]

\* slip: the temporary series is not reset after it was stored
handleCompletedLine_tempKept(m, rawLine) ==
    LET line == trim(rawLine)
    IN  IF line = <<>>
        THEN [m |-> m, result |-> "Nothing"]
        ELSE IF line = <<"*">>
        THEN [m |-> [m EXCEPT !.tempSeries_ = <<>>, !.state_ = "ReceivingSeries"],
              result |-> "Nothing"]
        ELSE IF line[1] = "*" /\ line # <<"*">>
        THEN [m |-> m, result |-> "Nothing"]
        ELSE IF line = <<"#">>
        THEN IF m.state_ = "ReceivingSeries" /\ m.tempSeries_ # <<>>
             THEN [m |-> [m EXCEPT !.series_ = Append(m.series_, m.tempSeries_),
                                   !.state_ = "Idle"],
                   result |-> "SeriesCompleted"]
             ELSE [m |-> m, result |-> "Nothing"]
        ELSE IF m.state_ = "ReceivingSeries"
        THEN [m |-> [m EXCEPT !.tempSeries_ = parseDataLine(m.tempSeries_, line)],
              result |-> "Nothing"]
        ELSE [m |-> m, result |-> "Nothing"]

\* slip: a data line is parsed whatever the parser state
handleCompletedLine_idleParses(m, rawLine) ==
    LET line == trim(rawLine)
    IN  IF line = <<>>
        THEN [m |-> m, result |-> "Nothing"]
        ELSE IF line = <<"*">>
        THEN [m |-> [m EXCEPT !.tempSeries_ = <<>>, !.state_ = "ReceivingSeries"],
              result |-> "Nothing"]
        ELSE IF line[1] = "*" /\ line # <<"*">>
        THEN [m |-> m, result |-> "Nothing"]
        ELSE IF line = <<"#">>
        THEN IF m.state_ = "ReceivingSeries" /\ m.tempSeries_ # <<>>
             THEN [m |-> [m EXCEPT !.series_ = Append(m.series_, m.tempSeries_),
                                   !.tempSeries_ = <<>>,
                                   !.state_ = "Idle"],
                   result |-> "SeriesCompleted"]
             ELSE [m |-> m, result |-> "Nothing"]
        ELSE [m |-> [m EXCEPT !.tempSeries_ = parseDataLine(m.tempSeries_, line)],
              result |-> "Nothing"]

\* slip: the close sentinel is recognised by its first character alone
handleCompletedLine_hashPrefix(m, rawLine) ==
    LET line == trim(rawLine)
    IN  IF line = <<>>
        THEN [m |-> m, result |-> "Nothing"]
        ELSE IF line = <<"*">>
        THEN [m |-> [m EXCEPT !.tempSeries_ = <<>>, !.state_ = "ReceivingSeries"],
              result |-> "Nothing"]
        ELSE IF line[1] = "*" /\ line # <<"*">>
        THEN [m |-> m, result |-> "Nothing"]
        ELSE IF line[1] = "#"
        THEN IF m.state_ = "ReceivingSeries" /\ m.tempSeries_ # <<>>
             THEN [m |-> [m EXCEPT !.series_ = Append(m.series_, m.tempSeries_),
                                   !.tempSeries_ = <<>>,
                                   !.state_ = "Idle"],
                   result |-> "SeriesCompleted"]
             ELSE [m |-> m, result |-> "Nothing"]
        ELSE IF m.state_ = "ReceivingSeries"
        THEN [m |-> [m EXCEPT !.tempSeries_ = parseDataLine(m.tempSeries_, line)],
              result |-> "Nothing"]
        ELSE [m |-> m, result |-> "Nothing"]

handleCompletedLine(m, rawLine) ==
    LET line == trim(rawLine)
    IN  IF line = <<>>
        THEN [m |-> m, result |-> "Nothing"]
        ELSE IF line = <<"*">>
        THEN [m |-> [m EXCEPT !.tempSeries_ = <<>>, !.state_ = "ReceivingSeries"],
              result |-> "Nothing"]
        ELSE IF line[1] = "*" /\ line # <<"*">>
        THEN [m |-> m, result |-> "Nothing"]
        ELSE IF line = <<"#">>
        THEN IF m.state_ = "ReceivingSeries" /\ m.tempSeries_ # <<>>
             THEN [m |-> [m EXCEPT !.series_ = Append(m.series_, m.tempSeries_),
                                   !.tempSeries_ = <<>>,
                                   !.state_ = "Idle"],
                   result |-> "SeriesCompleted"]
             ELSE [m |-> m, result |-> "Nothing"]
        ELSE IF m.state_ = "ReceivingSeries"
        THEN [m |-> [m EXCEPT !.tempSeries_ = parseDataLine(m.tempSeries_, line)],
              result |-> "Nothing"]
        ELSE [m |-> m, result |-> "Nothing"]

(***************************************************************************)
(* processReceivedChar                                                     *)
(***************************************************************************)
\* slip: the result of handleCompletedLine is dropped
processReceivedChar_resultDropped(m, c) ==
    IF c = LF
    THEN LET r == handleCompletedLine(m, m.currentLine_)
         IN  [m |-> [r.m EXCEPT !.currentLine_ = <<>>], result |-> "Nothing"]
    ELSE IF c # CR
    THEN [m |-> [m EXCEPT !.currentLine_ = Append(m.currentLine_, c)],
          result |-> "Nothing"]
    ELSE [m |-> m, result |-> "Nothing"]

\* slip: a carriage return is buffered like any other byte
processReceivedChar_crKept(m, c) ==
    IF c = LF
    THEN LET r == handleCompletedLine(m, m.currentLine_)
         IN  [m |-> [r.m EXCEPT !.currentLine_ = <<>>], result |-> r.result]
    ELSE [m |-> [m EXCEPT !.currentLine_ = Append(m.currentLine_, c)],
          result |-> "Nothing"]

\* slip: the open sentinel takes effect with its byte, before the LF
processReceivedChar_eagerStar(m, c) ==
    IF c = LF
    THEN LET r == handleCompletedLine(m, m.currentLine_)
         IN  [m |-> [r.m EXCEPT !.currentLine_ = <<>>], result |-> r.result]
    ELSE IF c # CR
    THEN [m |-> [m EXCEPT !.currentLine_ = Append(m.currentLine_, c),
                          !.state_ = IF c = "*" THEN "ReceivingSeries" ELSE m.state_],
          result |-> "Nothing"]
    ELSE [m |-> m, result |-> "Nothing"]

\* slip: the line buffer is not cleared once the line was handled
processReceivedChar_lineKept(m, c) ==
    IF c = LF
    THEN LET r == handleCompletedLine(m, m.currentLine_)
         IN  [m |-> r.m, result |-> r.result]
    ELSE IF c # CR
    THEN [m |-> [m EXCEPT !.currentLine_ = Append(m.currentLine_, c)],
          result |-> "Nothing"]
    ELSE [m |-> m, result |-> "Nothing"]

processReceivedChar(m, c) ==
    IF c = LF
    THEN LET r == handleCompletedLine(m, m.currentLine_)
         IN  [m |-> [r.m EXCEPT !.currentLine_ = <<>>], result |-> r.result]
    ELSE IF c # CR
    THEN [m |-> [m EXCEPT !.currentLine_ = Append(m.currentLine_, c)],
          result |-> "Nothing"]
    ELSE [m |-> m, result |-> "Nothing"]

(***************************************************************************)
(* Store queries and mutation                                              *)
(***************************************************************************)
seriesCount(m) == Len(m.series_)

tempSeriesSize(m) == Len(m.tempSeries_)

\* slip: series_[index] in place of series_.at(index), nothing thrown
series_unchecked(m, index) ==
    [m |-> m, status |-> "ok", index |-> index,
     value |-> IF index < Len(m.series_) THEN m.series_[index + 1] ELSE <<>>]

\* series(index): series_.at(index) throws std::out_of_range when index is
\* not below series_.size(); m is the manager after the call
series(m, index) ==
    IF index < Len(m.series_)
    THEN [m |-> m, status |-> "ok", index |-> index, value |-> m.series_[index + 1]]
    ELSE [m |-> m, status |-> "out_of_range", index |-> index, value |-> <<>>]

\* slip: the series in progress is cleared with the completed ones
removeAllSeries_tempCleared(m) == [m EXCEPT !.series_ = <<>>, !.tempSeries_ = <<>>]

removeAllSeries(m) == [m EXCEPT !.series_ = <<>>]

\* slip: the oldest series is removed instead of the newest
removeLastSeries_first(m) ==
    IF m.series_ # <<>>
    THEN [m EXCEPT !.series_ = SubSeq(m.series_, 2, Len(m.series_))]
    ELSE m

removeLastSeries(m) ==
    IF m.series_ # <<>>
    THEN [m EXCEPT !.series_ = SubSeq(m.series_, 1, Len(m.series_) - 1)]
    ELSE m

\* the inner loop of getMaxVoltage / getMaxCurrent over one points() vector
RECURSIVE ScanMax(_, _, _, _)
ScanMax(points, field, i, max) ==
    IF i > Len(points)
    THEN max
    ELSE ScanMax(points, field, i + 1,
                 IF points[i][field] > max THEN points[i][field] ELSE max)

\* the outer loop over series_
RECURSIVE ScanAllMax(_, _, _, _)
ScanAllMax(ser, field, i, max) ==
    IF i > Len(ser)
    THEN max
    ELSE ScanAllMax(ser, field, i + 1, ScanMax(ser[i], field, 1, max))

getMaxVoltage(m) ==
    ScanMax(m.tempSeries_, "voltageVolt", 1,
            ScanAllMax(m.series_, "voltageVolt", 1, 0))

getMaxCurrent(m) ==
    ScanMax(m.tempSeries_, "currentMilliAmp", 1,
            ScanAllMax(m.series_, "currentMilliAmp", 1, 0))

(***************************************************************************)
(* The exports.  A file is the sequence of the pieces written to it: the   *)
(* string literals of the source, with every line feed of the tabular      *)
(* export a piece of its own, and the characters of the formatted numbers. *)
(* canOpen tells whether std::ofstream could open the destination.         *)
(***************************************************************************)
DigitChar(d) ==
    CASE d = 0 -> "0" [] d = 1 -> "1" [] d = 2 -> "2" [] d = 3 -> "3"
      [] d = 4 -> "4" [] d = 5 -> "5" [] d = 6 -> "6" [] d = 7 -> "7"
      [] d = 8 -> "8" [] d = 9 -> "9"

\* operator<< of a non-negative integer
RECURSIVE DecimalOf(_)
DecimalOf(n) ==
    IF n < 10
    THEN <<DigitChar(n)>>
    ELSE DecimalOf(n \div 10) \o <<DigitChar(n % 10)>>

\* the decimal separators a QLocale can have
DecimalPoints == {".", ","}

\* QLocale::toString(v, 'f', 6) of an integral value below 1000: sign,
\* integer digits, the decimal separator of the locale, six zeros
toStringF6(v, decimalPoint) ==
    (IF v < 0 THEN <<"-">> ELSE <<>>)
        \o DecimalOf(IF v < 0 THEN 0 - v ELSE v)
        \o <<decimalPoint, "0", "0", "0", "0", "0", "0">>

\* the loop over the points of one series in exportCSV
RECURSIVE CSVPoints(_, _, _)
CSVPoints(points_, j, decimalPoint) ==
    IF j > Len(points_)
    THEN <<>>
    ELSE toStringF6(points_[j].voltageVolt, decimalPoint) \o <<";">>
            \o toStringF6(points_[j].currentMilliAmp, decimalPoint) \o <<LF>>
            \o CSVPoints(points_, j + 1, decimalPoint)

\* slip: the series are numbered from 0
RECURSIVE CSVSeries_zeroBased(_, _, _)
CSVSeries_zeroBased(ser, i, decimalPoint) ==
    IF i >= Len(ser)
    THEN <<>>
    ELSE <<"Series ">> \o DecimalOf(i) \o <<LF>>
            \o <<"Voltage (V);Current (mA)", LF>>
            \o CSVPoints(ser[i + 1], 1, decimalPoint)
            \o <<LF>>
            \o CSVSeries_zeroBased(ser, i + 1, decimalPoint)

\* the loop over series_ in exportCSV, from the series of 0-based index i
RECURSIVE CSVSeries(_, _, _)
CSVSeries(ser, i, decimalPoint) ==
    IF i >= Len(ser)
    THEN <<>>
    ELSE <<"Series ">> \o DecimalOf(i + 1) \o <<LF>>
            \o <<"Voltage (V);Current (mA)", LF>>
            \o CSVPoints(ser[i + 1], 1, decimalPoint)
            \o <<LF>>
            \o CSVSeries(ser, i + 1, decimalPoint)

\* slip: the series in progress is written after the completed ones
exportCSV_withTemp(m, canOpen, decimalPoint) ==
    IF ~canOpen
    THEN [m |-> m, status |-> "false", value |-> <<>>]
    ELSE [m |-> m, status |-> "true",
          value |-> CSVSeries(IF m.tempSeries_ = <<>>
                              THEN m.series_
                              ELSE Append(m.series_, m.tempSeries_),
                              0, decimalPoint)]

\* exportCSV(filePath) under a system locale with the given decimal
\* separator; m is the manager after the call, value what the file holds
exportCSV(m, canOpen, decimalPoint) ==
    IF ~canOpen
    THEN [m |-> m, status |-> "false", value |-> <<>>]
    ELSE [m |-> m, status |-> "true", value |-> CSVSeries(m.series_, 0, decimalPoint)]

\* one of the two value loops of exportPython; field names the coordinate
RECURSIVE PyValues(_, _, _)
PyValues(points_, field, j) ==
    IF j >= Len(points_)
    THEN <<>>
    ELSE toStringF6(points_[j + 1][field], ".")
            \o (IF j + 1 < Len(points_) THEN <<", ">> ELSE <<>>)
            \o PyValues(points_, field, j + 1)

\* the loop over series_ in exportPython, from the series of 0-based index i
RECURSIVE PySeries(_, _)
PySeries(ser, i) ==
    IF i >= Len(ser)
    THEN <<>>
    ELSE LET idx == DecimalOf(i + 1)
         IN  <<"# Series ">> \o idx \o <<"\n">>
                \o <<"voltage_">> \o idx \o <<" = [">>
                \o PyValues(ser[i + 1], "voltageVolt", 0) \o <<"]\n">>
                \o <<"current_">> \o idx \o <<" = [">>
                \o PyValues(ser[i + 1], "currentMilliAmp", 0) \o <<"]\n">>
                \o <<"series.append((voltage_">> \o idx \o <<", current_">>
                \o idx \o <<"))\n\n">>
                \o PySeries(ser, i + 1)

PyHeader ==
    <<"#!/usr/bin/env python3\n",
      "import matplotlib.pyplot as plt\n\n",
      "series = []\n\n">>

PyPlot ==
    <<"for i, (v, c) in enumerate(series):\n",
      "    plt.plot(v, c, label=f'Series {i+1}')\n\n",
      "plt.xlabel('Volt (V)')\n",
      "plt.ylabel('Milliampere (mA)')\n",
      "plt.legend()\n",
      "plt.grid(True)\n",
      "plt.show()\n">>

\* slip: an empty store is reported as a failure
exportPython_emptyFails(m, canOpen) ==
    IF ~canOpen \/ m.series_ = <<>>
    THEN [m |-> m, status |-> "false", value |-> <<>>]
    ELSE [m |-> m, status |-> "true",
          value |-> PyHeader \o PySeries(m.series_, 0) \o PyPlot]

\* slip: the export abandons the series in progress
exportPython_resets(m, canOpen) ==
    IF ~canOpen
    THEN [m |-> m, status |-> "false", value |-> <<>>]
    ELSE [m |-> [m EXCEPT !.tempSeries_ = <<>>, !.state_ = "Idle"],
          status |-> "true",
          value |-> PyHeader \o PySeries(m.series_, 0) \o PyPlot]

\* exportPython(filePath), numbers in the C locale
exportPython(m, canOpen) ==
    IF ~canOpen
    THEN [m |-> m, status |-> "false", value |-> <<>>]
    ELSE [m |-> m, status |-> "true",
          value |-> PyHeader \o PySeries(m.series_, 0) \o PyPlot]

(***************************************************************************)
(* MainWindow: the byte delivery loop                                      *)
(***************************************************************************)
\* handleSerialByte: the manager call whose result drives the chart
handleSerialByte(m, c) == processReceivedChar(m, c)

\* onSerialDataReceived: for (auto c : data) handleSerialByte(c);
\* the results of the calls are kept in call order
RECURSIVE DeliverFrom(_, _, _, _)
DeliverFrom(m, data, i, res) ==
    IF i > Len(data)
    THEN [m |-> m, results |-> res]
    ELSE LET r == handleSerialByte(m, data[i])
         IN  \* the byte is handled before the next one is taken
             IF r.result \in ParseResult /\ Len(res) = i - 1
             THEN DeliverFrom(r.m, data, i + 1, Append(res, r.result))
             ELSE [m |-> r.m, results |-> res]

\* slip: the line under assembly does not outlive the call
onSerialDataReceived_lineLost(m, data) ==
    DeliverFrom([m EXCEPT !.currentLine_ = <<>>], data, 1, <<>>)

onSerialDataReceived(m, data) == DeliverFrom(m, data, 1, <<>>)

(***************************************************************************)
(* MainWindow: the chart and the handlers that keep it.  A QLineSeries is  *)
(* the sequence of its points, the chart a record of its line series, its  *)
(* title, the ranges [min, max] of its horizontal and its vertical value   *)
(* axis (none: the empty sequence), the ranges zoomReset() would put back  *)
(* (not zoomed: the empty sequence), the visibility of its legend and its  *)
(* animation option.  Axis values are counted in steps of 1/AxisUnit, so   *)
(* that every range a zoom can reach within MaxEvents events is exact.     *)
(* A window w is the data manager with the chart and the status bar        *)
(* message.                                                                *)
(***************************************************************************)
PromptTitle == "Press the button on the DiodeScout ..."

\* the title set by rebuildChart: the time of the call, whatever it is
TimeTitle == "yyyy-MM-dd HH:mm:ss"

\* ceil(value * 2.0) / 2.0 of an integral value
roundUpToHalf(value) == (value * 2) \div 2

\* the chart as the constructor leaves it
\* the steps an axis has per unit of a measured value
AxisUnit == 2 ^ MaxEvents

\* axis->setRange(min, max), min and max in measured units
setRange(min, max) == [min |-> min * AxisUnit, max |-> max * AxisUnit]

NewChart ==
    [series |-> <<>>, title |-> PromptTitle, axes |-> <<>>, zoomReset |-> <<>>,
     legendVisible |-> TRUE, animation |-> "NoAnimation"]

\* the names a serial port can be opened under
PortNames == {"/dev/ttyACM0", "COM3"}

\* the window when the constructor returns with the port prettyName open
NewWindow(prettyName) ==
    [chart |-> NewChart, statusBar |-> <<"DiodeScout at ", prettyName>>]

Window(m, u) == [dataManager |-> m, chart |-> u.chart, statusBar |-> u.statusBar]

resetChartToEmpty(w) ==
    [w EXCEPT !.chart = [series |-> <<>>, title |-> PromptTitle, axes |-> <<>>,
                         zoomReset |-> <<>>,
                         legendVisible |-> FALSE, animation |-> "NoAnimation"]]

\* the QLineSeries built from one series of the manager
LineSeriesOf(points_) ==
    [j \in 1..Len(points_) |->
        [x |-> points_[j].voltageVolt, y |-> points_[j].currentMilliAmp]]

\* slip: the chart keeps the line series it had and gets only the last one
rebuildChart_appendsLast(w) ==
    LET all == w.dataManager.series_
    IN  IF seriesCount(w.dataManager) = 0
        THEN resetChartToEmpty(w)
        ELSE [w EXCEPT !.chart =
                [series |-> Append(w.chart.series, LineSeriesOf(all[Len(all)])),
                 title |-> TimeTitle,
                 axes |-> <<setRange(0, roundUpToHalf(getMaxVoltage(w.dataManager))),
                            setRange(0, roundUpToHalf(getMaxCurrent(w.dataManager)))>>,
                 \* the line series are new, and none of them is zoomed
                 zoomReset |-> <<>>,
                 legendVisible |-> FALSE,
                 animation |-> "SeriesAnimations"]]

rebuildChart(w) ==
    LET all == w.dataManager.series_
    IN  IF seriesCount(w.dataManager) = 0
        THEN resetChartToEmpty(w)
        ELSE [w EXCEPT !.chart =
                [series |-> [i \in 1..Len(all) |-> LineSeriesOf(all[i])],
                 title |-> TimeTitle,
                 axes |-> <<setRange(0, roundUpToHalf(getMaxVoltage(w.dataManager))),
                            setRange(0, roundUpToHalf(getMaxCurrent(w.dataManager)))>>,
                 \* the line series are new, and none of them is zoomed
                 zoomReset |-> <<>>,
                 legendVisible |-> FALSE,
                 animation |-> "SeriesAnimations"]]

\* handleSerialByte with the chart and the status bar it updates
MainWindow_handleSerialByte(w, c) ==
    LET r  == processReceivedChar(w.dataManager, c)
        w1 == [w EXCEPT !.dataManager = r.m]
    IN  IF r.result = "SeriesCompleted"
        THEN rebuildChart([w1 EXCEPT !.statusBar = <<"Ready">>])
        ELSE IF c = LF
        THEN [w1 EXCEPT !.statusBar =
                          <<"Receiving data ", tempSeriesSize(w1.dataManager)>>]
        ELSE w1

\* the loop of onSerialDataReceived over the bytes data[i], data[i+1], ...
RECURSIVE MainWindow_onSerialDataReceived(_, _, _)
MainWindow_onSerialDataReceived(w, data, i) ==
    IF i > Len(data)
    THEN w
    ELSE LET w1 == MainWindow_handleSerialByte(w, data[i])
         IN  \* the byte is handled before the next one is taken
             IF w1.dataManager.state_ \in ParserState
             THEN MainWindow_onSerialDataReceived(w1, data, i + 1)
             ELSE w1

onRemoveLastClicked(w) ==
    LET w1 == [w EXCEPT !.dataManager = removeLastSeries(w.dataManager)]
    IN  IF seriesCount(w1.dataManager) = 0
        THEN resetChartToEmpty(w1)
        ELSE rebuildChart(w1)

onRemoveAllClicked(w) ==
    resetChartToEmpty([w EXCEPT !.dataManager = removeAllSeries(w.dataManager)])

\* The rectangles a rubber band is released over, in halves of the plot
\* area: left and right counted from the low end of the horizontal axis,
\* bottom and top from the low end of the vertical axis.
LowerLeft  == [name |-> "lower left", left |-> 0, right |-> 1, bottom |-> 0, top |-> 1]
UpperRight == [name |-> "upper right", left |-> 1, right |-> 2, bottom |-> 1, top |-> 2]
LeftHalf   == [name |-> "left half", left |-> 0, right |-> 1, bottom |-> 0, top |-> 2]

RubberBands == {LowerLeft, UpperRight, LeftHalf}

\* the part of range from lo halves to hi halves of its span
PartOf(range, lo, hi) ==
    LET span == range.max - range.min
    IN  [min |-> range.min + (span * lo) \div 2,
         max |-> range.min + (span * hi) \div 2]

\* the first zoom of a view keeps the ranges for zoomReset()
storeZoomReset(chart) ==
    IF chart.zoomReset = <<>> THEN chart.axes ELSE chart.zoomReset

\* the rubber band of the chart view released with the left button over
\* rect: QChart::zoomIn(rect); a chart without series has nothing to zoom
zoomIn(w, rect) ==
    IF w.chart.series = <<>>
    THEN w
    ELSE [w EXCEPT !.chart.zoomReset = storeZoomReset(w.chart),
                   !.chart.axes =
                       <<PartOf(w.chart.axes[1], rect.left, rect.right),
                         PartOf(w.chart.axes[2], rect.bottom, rect.top)>>]

\* the right button released on the chart view: QChart::zoomOut(), twice
\* the span of each axis about its centre
zoomOut(w) ==
    IF w.chart.series = <<>>
    THEN w
    ELSE [w EXCEPT !.chart.zoomReset = storeZoomReset(w.chart),
                   !.chart.axes =
                       <<PartOf(w.chart.axes[1], -1, 3),
                         PartOf(w.chart.axes[2], -1, 3)>>]

\* chart->zoomReset(): the ranges from before the first zoom, if zoomed
onRestoreViewClicked(w) ==
    IF w.chart.zoomReset = <<>>
    THEN w
    ELSE [w EXCEPT !.chart.axes = w.chart.zoomReset,
                   !.chart.zoomReset = <<>>]

(***************************************************************************)
(* Size of the store, for the guards that keep the model finite            *)
(***************************************************************************)
RECURSIVE SumLen(_, _)
SumLen(ser, i) == IF i > Len(ser) THEN 0 ELSE Len(ser[i]) + SumLen(ser, i + 1)

TotalPoints(m) == Len(m.tempSeries_) + SumLen(m.series_, 1)

Bounded(m) == Len(m.currentLine_) <= MaxLine /\ TotalPoints(m) <= MaxPoints

SetMgr(m) ==
    /\ state_' = m.state_
    /\ currentLine_' = m.currentLine_
    /\ tempSeries_' = m.tempSeries_
    /\ series_' = m.series_

SetWindow(w) ==
    /\ SetMgr(w.dataManager)
    /\ ui' = [chart |-> w.chart, statusBar |-> w.statusBar]

(***************************************************************************)
(* Actions                                                                 *)
(***************************************************************************)
Init ==
    /\ state_ = NewManager.state_
    /\ currentLine_ = NewManager.currentLine_
    /\ tempSeries_ = NewManager.tempSeries_
    /\ series_ = NewManager.series_
    /\ op = "new"
    /\ arg = <<>>
    /\ results = <<>>
    /\ handled = <<>>
    /\ hist = <<>>
    /\ signals = <<>>
    /\ outcome = NoOutcome
    /\ \E prettyName \in PortNames : ui = NewWindow(prettyName)

\* one byte c handled by handleSerialByte: the call of processReceivedChar(c)
\* and the refresh of the status bar and the chart that follows it
ProcessReceivedChar(c) ==
    LET r == processReceivedChar(Mgr, c)
    IN  /\ Bounded(r.m)
        /\ SetWindow(MainWindow_handleSerialByte(Window(Mgr, ui), c))
        /\ op' = "processReceivedChar"
        /\ arg' = <<c>>
        /\ results' = <<r.result>>
        /\ handled' = IF c = LF THEN currentLine_ ELSE <<>>
        /\ UNCHANGED <<hist, signals>>
        /\ outcome' = NoOutcome

\* "Remove last series": removeLastSeries() and the refresh of the chart;
\* h is the record of calls after it
RemoveLastSeries(h) ==
    /\ SetWindow(onRemoveLastClicked(Window(Mgr, ui)))
    /\ op' = "removeLastSeries"
    /\ arg' = <<>>
    /\ results' = <<>>
    /\ handled' = <<>>
    /\ hist' = h
    /\ UNCHANGED signals
    /\ outcome' = NoOutcome

\* "Remove all series": removeAllSeries() and the reset of the chart;
\* h is the record of calls after it
RemoveAllSeries(h) ==
    /\ SetWindow(onRemoveAllClicked(Window(Mgr, ui)))
    /\ op' = "removeAllSeries"
    /\ arg' = <<>>
    /\ results' = <<>>
    /\ handled' = <<>>
    /\ hist' = h
    /\ UNCHANGED signals
    /\ outcome' = NoOutcome

\* onSerialDataReceived() when readAll() returns data
OnSerialDataReceived(data) ==
    LET r == onSerialDataReceived(Mgr, data)
    IN  /\ SetWindow(MainWindow_onSerialDataReceived(Window(Mgr, ui), data, 1))
        /\ op' = "onSerialDataReceived"
        /\ arg' = data
        /\ results' = r.results
        /\ handled' = <<>>
        /\ hist' = Append(hist, data)
        /\ signals' = signals \o r.results
        /\ outcome' = NoOutcome

(***************************************************************************)
(* Spec: any bytes of Bytes, one call each, and the two removals.          *)
(***************************************************************************)
Next ==
    \/ \E c \in Bytes : ProcessReceivedChar(c)
    \/ RemoveLastSeries(hist)
    \/ RemoveAllSeries(hist)

Spec == Init /\ [][Next]_vars

(***************************************************************************)
(* SpecLines: whole lines of Lines, each delivered with its LF by one      *)
(* readyRead, and the two removals; the calls are recorded in hist.        *)
(***************************************************************************)
StarLine == <<"*">>
HashLine == <<"#">>
Data12   == <<"1", " ", "2">>
DataNeg  == <<"-", "3", " ", "-", "1">>

Lines == {StarLine, HashLine, Data12, DataNeg}

Delivered(l) == Append(l, LF)

CallRemoveLast == <<"removeLastSeries()">>
CallRemoveAll  == <<"removeAllSeries()">>

NextLines ==
    \/ \E l \in Lines : Len(hist) < MaxHist /\ OnSerialDataReceived(Delivered(l))
    \/ Len(hist) < MaxHist /\ RemoveLastSeries(Append(hist, CallRemoveLast))
    \/ Len(hist) < MaxHist /\ RemoveAllSeries(Append(hist, CallRemoveAll))

SpecLines == Init /\ [][NextLines]_vars

(***************************************************************************)
(* SpecChunks: the bytes of a session arriving in chunks that cut the      *)
(* lines anywhere; the chunks are recorded in hist.                        *)
(***************************************************************************)
Chunks ==
    { <<"*">>, <<LF>>, <<"*", LF>>, <<"1", " ">>, <<"2", LF>>,
      <<"1", " ", "2", LF, "#">>, <<"#", LF>>, <<CR, LF>>,
      <<"*", LF, "1">>, <<" ", "2", CR>> }

NextChunks ==
    \E data \in Chunks : Len(hist) < MaxChunks /\ OnSerialDataReceived(data)

SpecChunks == Init /\ [][NextChunks]_vars

(***************************************************************************)
(* SpecStore: blocks of lines, each delivered by one readyRead and         *)
(* recorded in hist, and the const member functions called in between.     *)
(***************************************************************************)
\* a series of one point, a series of two points, a series left in
\* progress, and a line left without its LF
BlockA       == Delivered(StarLine) \o Delivered(Data12) \o Delivered(HashLine)
BlockB       == Delivered(StarLine) \o Delivered(DataNeg) \o Delivered(Data12)
                    \o Delivered(HashLine)
BlockOpen    == Delivered(StarLine) \o Delivered(DataNeg)
BlockPartial == <<"1", " ">>

Blocks == {BlockA, BlockB, BlockOpen, BlockPartial}

\* the bytes of the calls h[i], h[i+1], ... in one sequence
RECURSIVE Flatten(_, _)
Flatten(h, i) == IF i > Len(h) THEN <<>> ELSE h[i] \o Flatten(h, i + 1)

\* the indices handed to series(index)
Indices == 0..(MaxBlocks + 1)

\* one call of series(index)
Series(index) ==
    LET r == series(Mgr, index)
    IN  /\ SetMgr(r.m)
        /\ op' = "series"
        /\ arg' = <<>>
        /\ results' = <<>>
        /\ handled' = <<>>
        /\ UNCHANGED <<hist, signals>>
        /\ outcome' = [status |-> r.status, index |-> r.index, value |-> r.value]
        /\ UNCHANGED ui

\* one call of exportCSV(filePath)
ExportCSV(canOpen, decimalPoint) ==
    LET r == exportCSV(Mgr, canOpen, decimalPoint)
    IN  /\ SetMgr(r.m)
        /\ op' = "exportCSV"
        /\ arg' = <<decimalPoint>>
        /\ results' = <<>>
        /\ handled' = <<>>
        /\ UNCHANGED <<hist, signals>>
        /\ outcome' = [status |-> r.status, index |-> 0, value |-> r.value]
        /\ UNCHANGED ui

\* one call of exportPython(filePath)
ExportPython(canOpen) ==
    LET r == exportPython(Mgr, canOpen)
    IN  /\ SetMgr(r.m)
        /\ op' = "exportPython"
        /\ arg' = <<>>
        /\ results' = <<>>
        /\ handled' = <<>>
        /\ UNCHANGED <<hist, signals>>
        /\ outcome' = [status |-> r.status, index |-> 0, value |-> r.value]
        /\ UNCHANGED ui

NextStore ==
    \/ \E data \in Blocks : Len(hist) < MaxBlocks /\ OnSerialDataReceived(data)
    \/ \E index \in Indices : Series(index)
    \/ \E canOpen \in BOOLEAN, decimalPoint \in DecimalPoints :
          ExportCSV(canOpen, decimalPoint)
    \/ \E canOpen \in BOOLEAN : ExportPython(canOpen)

SpecStore == Init /\ [][NextStore]_vars

(***************************************************************************)
(* SpecUI: the events of the main window: blocks of lines read by one      *)
(* readyRead each, the two removal buttons, the zooms of the chart view    *)
(* and "Restore default view"; the events are recorded in hist.            *)
(***************************************************************************)
CallZoomIn(rect) == <<"zoomIn()", rect.name>>
CallZoomOut      == <<"zoomOut()">>
CallRestoreView  == <<"zoomReset()">>

\* an event of the chart that leaves the manager alone; w is the window
\* after it, call its name and its record in hist
ChartEvent(w, name, call) ==
    /\ SetWindow(w)
    /\ op' = name
    /\ arg' = <<>>
    /\ results' = <<>>
    /\ handled' = <<>>
    /\ hist' = Append(hist, call)
    /\ UNCHANGED signals
    /\ outcome' = NoOutcome

\* a rubber band released over rect
ZoomIn(rect) ==
    ChartEvent(zoomIn(Window(Mgr, ui), rect), "zoomIn", CallZoomIn(rect))

\* the right button released on the chart view
ZoomOut == ChartEvent(zoomOut(Window(Mgr, ui)), "zoomOut", CallZoomOut)

\* "Restore default view" triggered
OnRestoreViewClicked ==
    ChartEvent(onRestoreViewClicked(Window(Mgr, ui)),
               "onRestoreViewClicked", CallRestoreView)

NextUI ==
    \/ \E data \in Blocks : Len(hist) < MaxEvents /\ OnSerialDataReceived(data)
    \/ Len(hist) < MaxEvents /\ RemoveLastSeries(Append(hist, CallRemoveLast))
    \/ Len(hist) < MaxEvents /\ RemoveAllSeries(Append(hist, CallRemoveAll))
    \/ \E rect \in RubberBands : Len(hist) < MaxEvents /\ ZoomIn(rect)
    \/ Len(hist) < MaxEvents /\ ZoomOut
    \/ Len(hist) < MaxEvents /\ OnRestoreViewClicked

SpecUI == Init /\ [][NextUI]_vars

(***************************************************************************)
(* SpecCR: chunks with carriage returns before an LF, inside a line and    *)
(* on their own; the chunks are recorded in hist.                          *)
(***************************************************************************)
ChunksCR ==
    { <<"*", CR, LF>>, <<CR>>, <<"1", CR, " ", "2">>, <<CR, LF>>,
      <<"#", LF>>, <<"-", CR, "3", " ", "-", "1", LF>> }

NextCR ==
    \E data \in ChunksCR : Len(hist) < MaxCR /\ OnSerialDataReceived(data)

SpecCR == Init /\ [][NextCR]_vars

(***************************************************************************)
(* SpecParse: whole lines, well formed and malformed, each delivered with  *)
(* its LF by one readyRead and recorded in hist.                           *)
(***************************************************************************)
OneToken    == <<"1">>
NotANumber  == <<"z", " ", "1">>
ThreeTokens == <<"1", " ", "2", " ", "3">>
Trailing    == <<"1", " ", "2", "z">>

ParseLines == {StarLine, HashLine, Data12, OneToken, NotANumber, ThreeTokens, Trailing}

NextParse ==
    \E l \in ParseLines : Len(hist) < MaxParsed /\ OnSerialDataReceived(Delivered(l))

SpecParse == Init /\ [][NextParse]_vars

(***************************************************************************)
(* SpecRecover: whatever can come before a recovery, each piece delivered  *)
(* by one readyRead: whole lines, well formed, malformed and stray, lines  *)
(* left without their LF, the two removals, and the delivery of an LF      *)
(* followed by the lines of one series of one point; all recorded in hist. *)
(***************************************************************************)
\* a "#" left pending, a data line left pending, a "*" with text left pending
PendingHash == <<"#">>
PendingData == <<"1", " ", "1">>
PendingStar == <<"*", " ">>

RecoverChunks ==
    { Delivered(StarLine), Delivered(Data12), Delivered(HashLine),
      Delivered(NotANumber), PendingHash, PendingData, PendingStar }

\* an LF, a bare "*" line, the data line l, a bare "#" line
OneSeriesAfterLF(l) ==
    <<LF>> \o Delivered(StarLine) \o Delivered(l) \o Delivered(HashLine)

\* the data lines of the series that is fed
RecoverLines == {Data12, DataNeg}

\* the bytes of OneSeriesAfterLF(l) delivered by one readyRead to the
\* manager as it is; handled is the line the leading LF ended
Recover(l) ==
    LET r == onSerialDataReceived(Mgr, OneSeriesAfterLF(l))
    IN  /\ SetWindow(MainWindow_onSerialDataReceived(
                         Window(Mgr, ui), OneSeriesAfterLF(l), 1))
        /\ op' = "recover"
        /\ arg' = l
        /\ results' = r.results
        /\ handled' = currentLine_
        /\ hist' = Append(hist, OneSeriesAfterLF(l))
        /\ signals' = signals \o r.results
        /\ outcome' = NoOutcome

NextRecover ==
    \/ \E data \in RecoverChunks :
          Len(hist) < MaxRecover /\ OnSerialDataReceived(data)
    \/ Len(hist) < MaxRecover /\ RemoveLastSeries(Append(hist, CallRemoveLast))
    \/ Len(hist) < MaxRecover /\ RemoveAllSeries(Append(hist, CallRemoveAll))
    \/ \E l \in RecoverLines : Len(hist) < MaxRecover /\ Recover(l)

SpecRecover == Init /\ [][NextRecover]_vars

(***************************************************************************)
(* SpecExports: the calls of Spec and the two exports, in any order.       *)
(***************************************************************************)
NextExports ==
    \/ Next
    \/ \E canOpen \in BOOLEAN, decimalPoint \in DecimalPoints :
          ExportCSV(canOpen, decimalPoint)
    \/ \E canOpen \in BOOLEAN : ExportPython(canOpen)

SpecExports == Init /\ [][NextExports]_vars

(***************************************************************************)
(* What a session of whole lines is expected to store, read off the lines  *)
(* themselves                                                              *)
(***************************************************************************)
LineOf(data) == SubSeq(data, 1, Len(data) - 1)

ValidData == {Data12, DataNeg}

PointOf(l) ==
    CASE l = Data12  -> MeasurementPoint(1, 2)
      [] l = DataNeg -> MeasurementPoint(0 - 3, 0 - 1)

IsDataCall(data) == \E l \in ValidData : data = Delivered(l)

\* "*", then N >= 1 valid data lines, then "#", and nothing else
IsOneSeriesSession(h) ==
    /\ Len(h) >= 3
    /\ h[1] = Delivered(StarLine)
    /\ h[Len(h)] = Delivered(HashLine)
    /\ \A i \in 2..(Len(h) - 1) : IsDataCall(h[i])

ExpectedPoints(h) == [i \in 1..(Len(h) - 2) |-> PointOf(LineOf(h[i + 1]))]

CountCompleted(sig) == Cardinality({i \in DOMAIN sig : sig[i] = "SeriesCompleted"})

(***************************************************************************)
(* Claims                                                                  *)
(***************************************************************************)

\* C1: from a fresh manager, a bare "*" line, N >= 1 valid "x y" lines and a
\* bare "#" line leave exactly one completed series holding those N points
\* in arrival order, first token the voltage and second the current, the
\* temporary series empty and the parser Idle.
C1_OneSeriesOfNPoints ==
    IsOneSeriesSession(hist) =>
        /\ seriesCount(Mgr) = 1
        /\ series_ = <<ExpectedPoints(hist)>>
        /\ tempSeries_ = <<>>
        /\ tempSeriesSize(Mgr) = 0
        /\ state_ = "Idle"

C1_Witness ==
    /\ IsOneSeriesSession(hist)
    /\ Len(hist) = 4
    /\ hist[2] = Delivered(DataNeg)
    /\ hist[3] = Delivered(Data12)
    /\ series_ = << <<MeasurementPoint(0 - 3, 0 - 1), MeasurementPoint(1, 2)>> >>

\* C2 as stated: a call that returns SeriesCompleted is the call that
\* consumed the "#" byte.
C2_CompletedOnHashByte ==
    (op = "processReceivedChar" /\ results = <<"SeriesCompleted">>) => arg = <<"#">>

\* C2 as amended: processReceivedChar returns SeriesCompleted exactly in the
\* call that consumes the LF ending a "#" line while a non-empty series is
\* being received; every other call, the one consuming the "#" byte
\* included, returns Nothing, so each closure is signalled exactly once.
C2_CompletedOnLineFeedOfHash ==
    [][ op' = "processReceivedChar" =>
          ( results' = <<"SeriesCompleted">>
              <=> /\ arg' = <<LF>>
                  /\ trim(currentLine_) = <<"#">>
                  /\ state_ = "ReceivingSeries"
                  /\ tempSeries_ # <<>> ) ]_vars

C2_Witness ==
    /\ op = "processReceivedChar"
    /\ arg = <<LF>>
    /\ handled = <<"#">>
    /\ results = <<"SeriesCompleted">>

\* C3: a processReceivedChar call returns SeriesCompleted if and only if it
\* moved the non-empty temporary series to the end of the completed
\* collection (count + 1, temporary cleared, parser Idle); every other
\* call returns Nothing and leaves the completed collection unchanged.
C3_CompletedIffMoved ==
    [][ op' = "processReceivedChar" =>
          LET moved == /\ tempSeries_ # <<>>
                       /\ series_' = Append(series_, tempSeries_)
                       /\ seriesCount(Mgr') = seriesCount(Mgr) + 1
                       /\ tempSeries_' = <<>>
                       /\ state_' = "Idle"
          IN  /\ results' = <<"SeriesCompleted">> <=> moved
              /\ results' # <<"SeriesCompleted">> =>
                    (results' = <<"Nothing">> /\ series_' = series_) ]_vars

C3_Witness ==
    /\ op = "processReceivedChar"
    /\ results = <<"SeriesCompleted">>
    /\ Len(series_) = 2
    /\ tempSeries_ = <<>>
    /\ state_ = "Idle"

(***************************************************************************)
(* Delivery of a byte sequence one byte per readyRead                      *)
(***************************************************************************)

RECURSIVE ByteByByte(_, _, _, _)
ByteByByte(m, bytes, i, res) ==
    IF i > Len(bytes)
    THEN [m |-> m, results |-> res]
    ELSE LET r == onSerialDataReceived(m, <<bytes[i]>>)
         IN  \* the call has returned before the next one is made
             IF Len(r.results) = 1 /\ Len(res) = i - 1
             THEN ByteByByte(r.m, bytes, i + 1, res \o r.results)
             ELSE [m |-> r.m, results |-> res]

\* C4: the store (completed series, temporary series, parser state, line
\* buffer) and the sequence of results depend only on the concatenated
\* bytes: the chunks delivered so far leave what one burst of all their
\* bytes leaves, and what the same bytes delivered one by one leave.
C4_ChunkBoundariesIrrelevant ==
    LET bytes == Flatten(hist, 1)
        now   == [m |-> Mgr, results |-> signals]
    IN  /\ now = onSerialDataReceived(NewManager, bytes)
        /\ now = ByteByByte(NewManager, bytes, 1, <<>>)

C4_Witness ==
    /\ Len(hist) = 4
    /\ hist[1] = <<"*", LF, "1">>
    /\ hist[2] = <<" ", "2", CR>>
    /\ hist[3] = <<LF>>
    /\ hist[4] = <<"#", LF>>
    /\ series_ = << <<MeasurementPoint(1, 2)>> >>
    /\ CountCompleted(signals) = 1

(***************************************************************************)
(* Points held by the store                                                *)
(***************************************************************************)
PointsIn(points) == {points[i] : i \in DOMAIN points}

CompletedPoints(m) == UNION {PointsIn(m.series_[i]) : i \in DOMAIN m.series_}

AllPoints(m) == CompletedPoints(m) \cup PointsIn(m.tempSeries_)

SetMax(S) == CHOOSE x \in S : \A y \in S : y <= x

\* C5: a bare "*" line received while a series is in progress empties the
\* temporary series and leaves the parser in ReceivingSeries, and the
\* points received before it (since the last "#") are in no completed
\* series afterwards.  A point has no identity but its values, so a
\* discarded point is followed through the sessions that send its line once.
C5_RestartDiscardsPoints ==
    /\ (hist # <<>> /\ hist[Len(hist)] = Delivered(StarLine)) =>
          (tempSeries_ = <<>> /\ state_ = "ReceivingSeries")
    /\ \A i, j \in DOMAIN hist :
          ( /\ i < j
            /\ IsDataCall(hist[i])
            /\ hist[j] = Delivered(StarLine)
            /\ \A k \in (i + 1)..(j - 1) : hist[k] # Delivered(HashLine)
            /\ \A k \in DOMAIN hist : k # i => hist[k] # hist[i] )
          => PointOf(LineOf(hist[i])) \notin CompletedPoints(Mgr)

C5_Witness ==
    /\ hist = <<Delivered(StarLine), Delivered(Data12), Delivered(StarLine),
                Delivered(DataNeg), Delivered(HashLine)>>
    /\ series_ = << <<MeasurementPoint(0 - 3, 0 - 1)>> >>

\* C6: a bare "#" line received when the temporary series is empty (Idle,
\* or ReceivingSeries before any point) completes nothing: the call returns
\* Nothing, the completed collection and the parser state are unchanged.
C6_HashOnEmptyIgnored ==
    [][ ( /\ op' = "processReceivedChar"
          /\ arg' = <<LF>>
          /\ trim(currentLine_) = <<"#">>
          /\ tempSeries_ = <<>> )
        => /\ results' = <<"Nothing">>
           /\ series_' = series_
           /\ seriesCount(Mgr') = seriesCount(Mgr)
           /\ state_' = state_
           /\ tempSeries_' = <<>> ]_vars

C6_Witness ==
    /\ op = "processReceivedChar"
    /\ arg = <<LF>>
    /\ handled = <<"#">>
    /\ results = <<"Nothing">>
    /\ state_ = "ReceivingSeries"
    /\ tempSeries_ = <<>>

\* C7: in every parser state a line that after trimming starts with "*"
\* but is longer than "*" leaves the parser state, the temporary series
\* and the completed collection unchanged and returns Nothing.
C7_StarWithTextIgnored ==
    [][ ( /\ op' = "processReceivedChar"
          /\ arg' = <<LF>>
          /\ Len(trim(currentLine_)) > 1
          /\ trim(currentLine_)[1] = "*" )
        => /\ results' = <<"Nothing">>
           /\ state_' = state_
           /\ tempSeries_' = tempSeries_
           /\ series_' = series_ ]_vars

C7_Witness ==
    /\ op = "processReceivedChar"
    /\ arg = <<LF>>
    /\ handled = <<"*", " ", "1">>
    /\ results = <<"Nothing">>
    /\ state_ = "ReceivingSeries"
    /\ tempSeries_ # <<>>
    /\ series_ # <<>>

\* C8: getMaxVoltage / getMaxCurrent return the largest voltage / current
\* of the points of the completed series and the temporary series when
\* there is a point, whatever its sign, and 0 when there is none.
C8_MaxOverAllPoints ==
    LET pts == AllPoints(Mgr)
    IN  IF pts = {}
        THEN getMaxVoltage(Mgr) = 0 /\ getMaxCurrent(Mgr) = 0
        ELSE /\ getMaxVoltage(Mgr) = SetMax({p.voltageVolt : p \in pts})
             /\ getMaxCurrent(Mgr) = SetMax({p.currentMilliAmp : p \in pts})

\* C9: removeLastSeries() on an empty completed collection changes nothing;
\* on N >= 1 series it leaves the first N - 1, unchanged and in order; the
\* temporary series, parser state and line buffer are unchanged.
C9_RemoveLastDropsNewest ==
    [][ op' = "removeLastSeries" =>
          /\ series_ = <<>> => series_' = <<>>
          /\ series_ # <<>> => series_' = SubSeq(series_, 1, Len(series_) - 1)
          /\ tempSeries_' = tempSeries_
          /\ state_' = state_
          /\ currentLine_' = currentLine_ ]_vars

C9_Witness ==
    /\ hist = <<Delivered(StarLine), Delivered(Data12), Delivered(HashLine),
                Delivered(StarLine), Delivered(DataNeg), Delivered(HashLine),
                CallRemoveLast>>
    /\ series_ = << <<MeasurementPoint(1, 2)>> >>

\* a series opened by "*", interrupted once by removeAllSeries() and closed
\* by "#", with valid data lines only in between, after any earlier calls
InterruptedAt(h, s, r) ==
    /\ s < r
    /\ r < Len(h)
    /\ h[s] = Delivered(StarLine)
    /\ h[r] = CallRemoveAll
    /\ h[Len(h)] = Delivered(HashLine)
    /\ \A k \in (s + 1)..(Len(h) - 1) : k # r => IsDataCall(h[k])
    /\ Len(h) - s >= 3

RECURSIVE PointsFrom(_, _)
PointsFrom(h, k) ==
    IF k >= Len(h)
    THEN <<>>
    ELSE IF IsDataCall(h[k])
    THEN <<PointOf(LineOf(h[k]))>> \o PointsFrom(h, k + 1)
    ELSE PointsFrom(h, k + 1)

\* C10: removeAllSeries() empties the completed collection and leaves the
\* temporary series, parser state and line buffer unchanged, so a series in
\* progress at the call completes on its "#" with all the points received
\* before and after the call, as the only completed series.
C10_RemoveAllKeepsSeriesInProgress ==
    [][ /\ op' = "removeAllSeries" =>
            /\ series_' = <<>>
            /\ tempSeries_' = tempSeries_
            /\ state_' = state_
            /\ currentLine_' = currentLine_
        /\ \A s, r \in DOMAIN hist' :
            InterruptedAt(hist', s, r) =>
               /\ series_' = <<PointsFrom(hist', s)>>
               /\ results'[Len(results')] = "SeriesCompleted" ]_vars

C10_Witness ==
    /\ hist = <<Delivered(StarLine), Delivered(Data12), Delivered(HashLine),
                Delivered(StarLine), Delivered(DataNeg), CallRemoveAll,
                Delivered(HashLine)>>
    /\ series_ = << <<MeasurementPoint(0 - 3, 0 - 1)>> >>
    /\ results[Len(results)] = "SeriesCompleted"

\* C11: series(index) returns the index-th completed series, counted from 0
\* in completion order, when index < seriesCount(); for every index >=
\* seriesCount(), the empty store included, it fails with an out-of-range
\* error; the store is unchanged in either case.
C11_SeriesAtOrOutOfRange ==
    [][ op' = "series" =>
          LET i == outcome'.index
          IN  /\ Mgr' = Mgr
              /\ i < seriesCount(Mgr) =>
                    /\ outcome'.status = "ok"
                    /\ outcome'.value = series_[i + 1]
              /\ i >= seriesCount(Mgr) =>
                    outcome'.status = "out_of_range" ]_vars

C11_Witness ==
    /\ op = "series"
    /\ seriesCount(Mgr) = 2
    /\ series_[1] # series_[2]
    /\ outcome.index = 2
    /\ outcome.status = "out_of_range"

\* C12: the completed series are kept in the order their closing "#" was
\* seen and the points of a series in arrival order: delivering a line
\* never removes, reorders or modifies a completed series (the collection
\* before is a prefix of the collection after, which grows only by the
\* temporary series at its end), and a data line only appends its point at
\* the end of the temporary series.
C12_OrderPreserved ==
    [][ op' = "onSerialDataReceived" =>
          /\ Len(series_') >= Len(series_)
          /\ SubSeq(series_', 1, Len(series_)) = series_
          /\ series_' # series_ => series_' = Append(series_, tempSeries_)
          /\ IsDataCall(arg') =>
                /\ series_' = series_
                /\ tempSeries_' = IF state_ = "ReceivingSeries"
                                  THEN Append(tempSeries_, PointOf(LineOf(arg')))
                                  ELSE tempSeries_ ]_vars

C12_Witness ==
    /\ op = "onSerialDataReceived"
    /\ arg = Delivered(Data12)
    /\ Len(series_) = 1
    /\ tempSeries_ = <<MeasurementPoint(0 - 3, 0 - 1), MeasurementPoint(1, 2)>>

\* C13: in every state reached by any interleaving of processReceivedChar,
\* removeLastSeries, removeAllSeries and the exports, every series of the
\* completed collection holds at least one point.
C13_CompletedSeriesNonEmpty ==
    \A i \in DOMAIN series_ : Len(series_[i]) >= 1

C13_Witness ==
    /\ op = "exportCSV"
    /\ outcome.status = "true"
    /\ seriesCount(Mgr) = 2
    /\ state_ = "ReceivingSeries"

\* C14: in every reachable state an Idle parser has an empty temporary
\* series and tempSeriesSize() = 0; a point is appended to the temporary
\* series only while the parser is ReceivingSeries, so the line feed that
\* ends a valid data line while Idle changes neither the parser state, the
\* temporary series nor the completed collection.
C14_IdleHasNoTemporary ==
    [][ /\ state_' = "Idle" => (tempSeries_' = <<>> /\ tempSeriesSize(Mgr') = 0)
        /\ Len(tempSeries_') > Len(tempSeries_) =>
              (state_ = "ReceivingSeries" /\ state_' = "ReceivingSeries")
        /\ ( /\ op' = "processReceivedChar"
             /\ arg' = <<LF>>
             /\ state_ = "Idle"
             /\ parseDataLine(<<>>, trim(currentLine_)) # <<>> ) =>
                /\ Mgr' = [Mgr EXCEPT !.currentLine_ = <<>>]
                /\ tempSeriesSize(Mgr') = 0
                /\ results' = <<"Nothing">> ]_vars

C14_Witness ==
    /\ op = "processReceivedChar"
    /\ arg = <<LF>>
    /\ handled = <<"1", " ", "1">>
    /\ state_ = "Idle"
    /\ tempSeries_ = <<>>
    /\ seriesCount(Mgr) = 1

\* the manager and the ParseResults that the deliveries h[i], h[i+1], ...
\* alone give, no other call in between
RECURSIVE DeliveriesAlone(_, _, _, _)
DeliveriesAlone(m, h, i, res) ==
    IF i > Len(h)
    THEN [m |-> m, results |-> res]
    ELSE LET r == onSerialDataReceived(m, h[i])
         IN  \* each call has returned, one ParseResult per byte, before the
             \* next one is made
             IF r.m.state_ \in ParserState /\ Len(r.results) = Len(h[i])
             THEN DeliveriesAlone(r.m, h, i + 1, res \o r.results)
             ELSE [m |-> r.m, results |-> res \o r.results]

\* C15: exportCSV and exportPython are read-only: whether they succeed or
\* fail, the completed collection, the temporary series, the parser state
\* and the line buffer are the same after the call as before it, and the
\* deliveries of a session interleaved with exports leave the same store
\* and the same signals as the same deliveries without them.
C15_ExportsReadOnly ==
    [][ /\ op' \in {"exportCSV", "exportPython"} =>
              (Mgr' = Mgr /\ signals' = signals)
        /\ Mgr' = DeliveriesAlone(NewManager, hist', 1, <<>>).m
        /\ signals' = DeliveriesAlone(NewManager, hist', 1, <<>>).results ]_vars

C15_Witness ==
    /\ op = "exportCSV"
    /\ outcome.status = "false"
    /\ hist = <<BlockA, BlockOpen, BlockPartial>>
    /\ seriesCount(Mgr) = 1
    /\ tempSeriesSize(Mgr) = 1
    /\ currentLine_ = BlockPartial

\* the manager that holds the completed series ser and nothing else
Quiet(ser) == Manager("Idle", <<>>, <<>>, ser)

\* C16: what exportCSV and exportPython write depends on the completed
\* collection alone: a manager with a series in progress, a partial line or
\* another parser state writes what the manager holding the same completed
\* collection and nothing else writes, so no point of the temporary series
\* appears in an export.
C16_ExportOfCompletedOnly ==
    /\ op = "exportCSV" =>
          outcome.value = exportCSV(Quiet(series_), outcome.status = "true", arg[1]).value
    /\ op = "exportPython" =>
          outcome.value = exportPython(Quiet(series_), outcome.status = "true").value

C16_Witness ==
    /\ op = "exportCSV"
    /\ outcome.status = "true"
    /\ hist = <<BlockA, BlockOpen, BlockPartial>>
    /\ state_ = "ReceivingSeries"
    /\ tempSeries_ = <<MeasurementPoint(0 - 3, 0 - 1)>>
    /\ currentLine_ = BlockPartial

\* C17: exportCSV and exportPython return false when the destination
\* cannot be opened, writing nothing, and true in every other case, an
\* empty completed collection included.
C17_ExportFailsOnlyOnOpen ==
    [][ /\ \A canOpen \in BOOLEAN, decimalPoint \in DecimalPoints :
              ExportCSV(canOpen, decimalPoint) =>
                 /\ outcome'.status = IF canOpen THEN "true" ELSE "false"
                 /\ ~canOpen => outcome'.value = <<>>
        /\ \A canOpen \in BOOLEAN :
              ExportPython(canOpen) =>
                 /\ outcome'.status = IF canOpen THEN "true" ELSE "false"
                 /\ ~canOpen => outcome'.value = <<>> ]_vars

C17_Witness ==
    /\ op = "exportPython"
    /\ outcome.status = "false"
    /\ outcome.value = <<>>
    /\ seriesCount(Mgr) = 2

\* the lines of a file that ends with a line feed or is empty: the k-th
\* line is the pieces between the (k-1)-th line feed and the k-th
LineFeeds(pieces) == {i \in DOMAIN pieces : pieces[i] = LF}

SplitLines(pieces) ==
    LET ends == LineFeeds(pieces)
    IN  [k \in 1..Cardinality(ends) |->
            LET e == CHOOSE x \in ends : Cardinality({y \in ends : y < x}) = k - 1
                before == {y \in ends : y < e}
                b == IF before = {}
                     THEN 0
                     ELSE CHOOSE x \in before : \A y \in before : y <= x
            IN  SubSeq(pieces, b + 1, e - 1)]

\* the text of the values the lines of the model hold, six decimals
TextOf(v, decimalPoint) ==
    CASE v = 1     -> <<"1", decimalPoint, "0", "0", "0", "0", "0", "0">>
      [] v = 2     -> <<"2", decimalPoint, "0", "0", "0", "0", "0", "0">>
      [] v = 0 - 1 -> <<"-", "1", decimalPoint, "0", "0", "0", "0", "0", "0">>
      [] v = 0 - 3 -> <<"-", "3", decimalPoint, "0", "0", "0", "0", "0", "0">>

\* the lines the tabular export owes to the i-th series s, i from 1
TableOf(s, i, decimalPoint) ==
    << <<"Series ", <<"1", "2", "3", "4", "5", "6", "7", "8", "9">>[i]>>,
       <<"Voltage (V);Current (mA)">> >>
    \o [j \in 1..Len(s) |->
            TextOf(s[j].voltageVolt, decimalPoint) \o <<";">>
                \o TextOf(s[j].currentMilliAmp, decimalPoint)]
    \o << <<>> >>

RECURSIVE TablesOf(_, _, _)
TablesOf(ser, i, decimalPoint) ==
    IF i > Len(ser)
    THEN <<>>
    ELSE TableOf(ser[i], i, decimalPoint) \o TablesOf(ser, i + 1, decimalPoint)

\* the lines of a file holding the separator of the two columns
DataLines(lines) ==
    {k \in DOMAIN lines : \E n \in DOMAIN lines[k] : lines[k][n] = ";"}

\* C18: the tabular export writes, for the i-th completed series (i from 1,
\* in completion order), a "Series i" line, the column-header line, one
\* "voltage;current" line per point in point order and a blank line; the
\* data lines are as many as the points of the completed collection.
C18_TableOfEachSeries ==
    (op = "exportCSV" /\ outcome.status = "true") =>
        LET lines == SplitLines(outcome.value)
        IN  /\ outcome.value = <<>> \/ outcome.value[Len(outcome.value)] = LF
            /\ lines = TablesOf(series_, 1, arg[1])
            /\ Cardinality(DataLines(lines)) = SumLen(series_, 1)

C18_Witness ==
    /\ op = "exportCSV"
    /\ outcome.status = "true"
    /\ arg = <<",">>
    /\ hist = <<BlockB, BlockA, BlockOpen>>
    /\ series_ = << <<MeasurementPoint(0 - 3, 0 - 1), MeasurementPoint(1, 2)>>,
                    <<MeasurementPoint(1, 2)>> >>
    /\ Len(SplitLines(outcome.value)) = 9

\* the whitespace-separated tokens of a line
RECURSIVE Tokens(_, _, _, _)
Tokens(s, i, cur, acc) ==
    IF i > Len(s)
    THEN IF cur = <<>> THEN acc ELSE Append(acc, cur)
    ELSE IF isspace(s[i])
    THEN Tokens(s, i + 1, <<>>, IF cur = <<>> THEN acc ELSE Append(acc, cur))
    ELSE Tokens(s, i + 1, Append(cur, s[i]), acc)

\* a token that is a number from its first character to its last
IsNumberToken(t) ==
    LET body == IF t # <<>> /\ t[1] \in {"-", "+"} THEN Tail(t) ELSE t
    IN  body # <<>> /\ \A k \in DOMAIN body : body[k] \in Digits

NumberOf(t) == ExtractDouble(t, 0).val

IsTwoNumbers(l) ==
    LET ts == Tokens(l, 1, <<>>, <<>>)
    IN  Len(ts) = 2 /\ IsNumberToken(ts[1]) /\ IsNumberToken(ts[2])

IsSentinelLine(l) == l = <<>> \/ l[1] = "*" \/ l = HashLine

\* C19 as stated: while ReceivingSeries a line that is no sentinel appends
\* a point exactly when it consists of two whitespace-separated numbers,
\* appending (first, second) and raising tempSeriesSize() by one; every
\* other line (one token, a token that is no number, more than two tokens,
\* trailing text) leaves the temporary series unchanged; either way the
\* parser state and the completed collection stay and Nothing is returned.
C19_PointIffTwoNumbers ==
    [][ ( /\ op' = "onSerialDataReceived"
          /\ state_ = "ReceivingSeries"
          /\ ~IsSentinelLine(LineOf(arg')) ) =>
            LET l  == LineOf(arg')
                ts == Tokens(l, 1, <<>>, <<>>)
            IN  /\ IsTwoNumbers(l) =>
                      /\ tempSeries_' = Append(tempSeries_,
                              MeasurementPoint(NumberOf(ts[1]), NumberOf(ts[2])))
                      /\ tempSeriesSize(Mgr') = tempSeriesSize(Mgr) + 1
                /\ ~IsTwoNumbers(l) => tempSeries_' = tempSeries_
                /\ state_' = state_
                /\ series_' = series_
                /\ \A k \in DOMAIN results' : results'[k] = "Nothing" ]_vars

\* the manager m, fed OneSeriesAfterLF(l), ends with SeriesCompleted on the
\* last byte and with the one point of l as its last completed series
Recovers(m, l) ==
    LET r == onSerialDataReceived(m, OneSeriesAfterLF(l))
    IN  /\ Len(r.results) = Len(OneSeriesAfterLF(l))
        /\ r.results[Len(r.results)] = "SeriesCompleted"
        /\ r.m.series_ # <<>>
        /\ r.m.series_[Len(r.m.series_)] = <<PointOf(l)>>

\* C20: the parser never gets stuck: from every reachable state, whatever
\* malformed lines, stray sentinels, unterminated partial line and removals
\* came before, feeding LF, a bare "*" line, one valid data line "x y" and
\* a bare "#" line makes the last call return SeriesCompleted and leaves
\* [(x, y)] as the last completed series.
C20_AlwaysRecovers ==
    [][ /\ op' = "recover" =>
              /\ Len(results') = Len(OneSeriesAfterLF(arg'))
              /\ results'[Len(results')] = "SeriesCompleted"
              /\ series_' # <<>>
              /\ series_'[Len(series_')] = <<PointOf(arg')>>
        \* and the state just reached, whichever step led to it, recovers too
        /\ \A l \in RecoverLines :
              Recovers(Manager(state_', currentLine_', tempSeries_', series_'),
                       l) ]_vars

\* a "#" was left pending after a series in progress: the leading LF of the
\* recovery closed that series, and the series fed was completed after it
C20_Witness ==
    /\ op = "recover"
    /\ arg = DataNeg
    /\ handled = PendingHash
    /\ hist = <<Delivered(StarLine), Delivered(Data12), PendingHash,
                OneSeriesAfterLF(DataNeg)>>
    /\ results[1] = "SeriesCompleted"
    /\ results[Len(results)] = "SeriesCompleted"
    /\ state_ = "Idle"
    /\ series_ = << <<MeasurementPoint(1, 2)>>,
                    <<MeasurementPoint(0 - 3, 0 - 1)>> >>

\* a byte sequence with its carriage returns deleted
WithoutCR(bytes) == SelectSeq(bytes, LAMBDA b : b # CR)

\* the results of the bytes that are no carriage return, in order
RECURSIVE ResultsOfNonCR(_, _, _, _)
ResultsOfNonCR(bytes, res, i, acc) ==
    IF i > Len(bytes)
    THEN acc
    ELSE IF Len(acc) <= i /\ bytes[i] # CR
    THEN ResultsOfNonCR(bytes, res, i + 1, Append(acc, res[i]))
    ELSE ResultsOfNonCR(bytes, res, i + 1, acc)

\* C21: carriage returns are dropped unconditionally: the bytes delivered
\* so far, with carriage returns before an LF, inside a line or on their
\* own, leave the completed collection, temporary series, parser state and
\* line buffer that the same bytes without the carriage returns leave, with
\* the same result for every other byte, and every call consuming a
\* carriage return returned Nothing.
C21_CarriageReturnDropped ==
    LET bytes == Flatten(hist, 1)
        plain == onSerialDataReceived(NewManager, WithoutCR(bytes))
    IN  /\ Mgr = plain.m
        /\ ResultsOfNonCR(bytes, signals, 1, <<>>) = plain.results
        /\ \A i \in DOMAIN bytes : bytes[i] = CR => signals[i] = "Nothing"

C21_Witness ==
    /\ hist = << <<"*", CR, LF>>, <<"1", CR, " ", "2">>, <<CR>>, <<CR, LF>>, <<"#", LF>> >>
    /\ series_ = << <<MeasurementPoint(1, 2)>> >>
    /\ signals[Len(signals)] = "SeriesCompleted"

\* C22: the close sentinel is a line that is "#" alone once trimmed: while
\* ReceivingSeries with a non-empty temporary series, a line that starts
\* with "#" and goes on ("# 1", "##") completes no series, appends no
\* point, returns Nothing and leaves the parser ReceivingSeries.
C22_HashWithTextIgnored ==
    [][ ( /\ op' = "processReceivedChar"
          /\ arg' = <<LF>>
          /\ state_ = "ReceivingSeries"
          /\ tempSeries_ # <<>>
          /\ Len(trim(currentLine_)) > 1
          /\ trim(currentLine_)[1] = "#" ) =>
            /\ series_' = series_
            /\ tempSeries_' = tempSeries_
            /\ results' = <<"Nothing">>
            /\ state_' = "ReceivingSeries" ]_vars

C22_Witness ==
    /\ op = "processReceivedChar"
    /\ arg = <<LF>>
    /\ handled = <<"#", " ", "1">>
    /\ state_ = "ReceivingSeries"
    /\ tempSeries_ = <<MeasurementPoint(1, 1)>>
    /\ series_ = <<>>

\* the white space put before or after a line
Pads == {<<>>, <<" ">>, <<"\t", VT>>}

\* the manager m with l, padded, as the line under assembly
WithLine(m, pre, l, post) == [m EXCEPT !.currentLine_ = pre \o l \o post]

\* C23: the classification of a line ignores leading and trailing white
\* space: the LF that ends a line has the effect and the result it has when
\* spaces or tabs are put before and after the line, for the line received
\* and for each data line, so " * " opens a series and " # " closes
\* one; the LF that ends an empty or white-space-only line changes nothing.
C23_PaddingIgnored ==
    [][ (op' = "processReceivedChar" /\ arg' = <<LF>>) =>
          /\ \A pre, post \in Pads :
                LET padded == processReceivedChar(WithLine(Mgr, pre, currentLine_, post), LF)
                IN  padded.m = Mgr' /\ <<padded.result>> = results'
          /\ \A l \in ValidData : \A pre, post \in Pads :
                processReceivedChar(WithLine(Mgr, pre, l, post), LF)
                    = processReceivedChar(WithLine(Mgr, <<>>, l, <<>>), LF)
          /\ (\A k \in DOMAIN currentLine_ : isspace(currentLine_[k])) =>
                /\ Mgr' = [Mgr EXCEPT !.currentLine_ = <<>>]
                /\ results' = <<"Nothing">> ]_vars

C23_Witness ==
    /\ op = "processReceivedChar"
    /\ arg = <<LF>>
    /\ handled = <<" ", "#", " ">>
    /\ results = <<"SeriesCompleted">>
    /\ seriesCount(Mgr) = 1

\* C24: a processReceivedChar call with a byte other than LF returns
\* Nothing and leaves the parser state, the temporary series and the
\* completed collection unchanged, the line buffer at most growing by that
\* byte, so a line has no effect before its LF; right after every LF call
\* the line buffer is empty.
C24_OnlyLineFeedActs ==
    [][ op' = "processReceivedChar" =>
          /\ arg' # <<LF>> =>
                /\ results' = <<"Nothing">>
                /\ state_' = state_
                /\ tempSeries_' = tempSeries_
                /\ series_' = series_
                /\ currentLine_' \in {currentLine_, currentLine_ \o arg'}
          /\ arg' = <<LF>> => currentLine_' = <<>> ]_vars

C24_Witness ==
    /\ op = "processReceivedChar"
    /\ arg = <<"#">>
    /\ currentLine_ = <<"#">>
    /\ results = <<"Nothing">>
    /\ state_ = "ReceivingSeries"
    /\ tempSeries_ = <<MeasurementPoint(1, 1)>>
    /\ series_ = <<>>

(***************************************************************************)
(* C25: the chart mirrors the completed series                             *)
(***************************************************************************)
\* the empty state of the chart: nothing drawn, the prompt as title
IsEmptyChart(chart) ==
    /\ chart.series = <<>>
    /\ chart.title = PromptTitle
    /\ chart.axes = <<>>
    /\ chart.animation = "NoAnimation"

\* the chart of window w shows the completed series of its manager
ChartMirrors(w) ==
    LET shown  == w.chart.series
        stored == w.dataManager.series_
    IN  /\ Len(shown) = seriesCount(w.dataManager)
        /\ Len(shown) = Len(stored)
        /\ \A i \in DOMAIN shown :
              /\ Len(shown[i]) = Len(stored[i])
              /\ \A j \in DOMAIN shown[i] :
                    /\ shown[i][j].x = stored[i][j].voltageVolt
                    /\ shown[i][j].y = stored[i][j].currentMilliAmp
        /\ IsEmptyChart(w.chart) <=> seriesCount(w.dataManager) = 0

\* C25: after every handler of the main window (each byte handled by
\* handleSerialByte, "Remove last series", "Remove all series") the chart has
\* as many line series as seriesCount(), they are the completed series in the
\* same order with the same points, and the chart is in its empty state
\* exactly when seriesCount() is 0.
C25_ChartShowsCompletedSeries ==
    [][ /\ ChartMirrors(Window(Mgr, ui))'
        /\ op' = "onSerialDataReceived" =>
              \A k \in 1..Len(arg') :
                 ChartMirrors(MainWindow_onSerialDataReceived(
                                  Window(Mgr, ui), SubSeq(arg', 1, k), 1)) ]_vars

\* two series were completed and shown, and the last one was removed again
C25_Witness ==
    /\ op = "removeLastSeries"
    /\ Len(hist) = 3
    /\ series_ = << <<MeasurementPoint(1, 2)>> >>
    /\ ui.chart.series = << <<[x |-> 1, y |-> 2]>> >>
    /\ ui.chart.title = TimeTitle
    /\ ui.statusBar = <<"Ready">>

====
